---- MODULE Spec2Model ----
(***************************************************************************)
(* The file provider of provider/file/file.go: the build pipeline          *)
(* (loadFileConfig, loadFileConfigFromDirectory, BuildConfiguration), the  *)
(* watch set (getDirectoriesRecursively, watchedDirectories), the startup  *)
(* entry point Provide and the event loop started by addWatcher.           *)
(*                                                                         *)
(* A file name is a tuple of its dot-separated components (f.toml is       *)
(* <<"f", "toml">>), a path is a tuple of names, the empty path is the     *)
(* empty string of the Go code.                                            *)
(***************************************************************************)
EXTENDS Integers, Sequences, FiniteSets, TLC

VARIABLES
    Directory,          \* Provider.Directory
    Filename,           \* BaseProvider.Filename
    TraefikFile,        \* Provider.TraefikFile
    Watch,              \* BaseProvider.Watch
    watchedDirectories, \* Provider.watchedDirectories: path -> list of paths
    dirs,               \* the directories that exist on disk
    files,              \* file path -> what the file holds (or that it is absent)
    watcher,            \* the fsnotify watcher: its state, the paths it was asked to
                        \* watch (requested), those it watches, and those of them
                        \* whose directory has been moved away
    events,             \* watcher.Events, oldest first
    errs,               \* errors pending on watcher.Errors
    stop,               \* the pool's stop signal has been raised
    pc,                 \* where Provide is
    configuration,      \* what Provide's BuildConfiguration returned
    loop,               \* the routine given to pool.Go: NotStarted, Running, Stopped
    chan,               \* configurationChan: messages buffered or held by a blocked sender
    delivered,          \* the origin of every message the consumer received, in order
    last,               \* what the event loop did in its latest iteration
    ops                 \* number of filesystem operations and watcher errors so far

vars == <<Directory, Filename, TraefikFile, Watch, watchedDirectories, dirs, files,
          watcher, events, errs, stop, pc, configuration, loop, chan, delivered,
          last, ops>>

----------------------------------------------------------------------------
(* Bounds of the model *)

\* filesystem operations and watcher errors the environment performs in one run
MaxOps == 3
\* capacity of the caller-supplied configuration channel (0: unbuffered)
ChanCap == 0

----------------------------------------------------------------------------
(* Paths *)

nR == <<"r">>
nA == <<"a">>
nZ == <<"z">>
nE == <<"e", "toml">>
nF == <<"f", "toml">>
nG == <<"g", "tmpl">>
nH == <<"h", "toml">>
nX == <<"x", "bak">>
nU == <<"zu">>

R == <<nR>>
A == <<nR, nA>>
Z == <<nR, nA, nZ>>
E == <<nR, nE>>
F == <<nR, nF>>
X == <<nR, nX>>
G == <<nR, nA, nG>>
H == <<nR, nA, nZ, nH>>
\* a directory that the provider may stat but not list
U == <<nR, nA, nU>>

DirPaths  == {R, A, Z}
FilePaths == {E, F, X, G, H}

\* every name of the universe in the order ioutil.ReadDir sorts them (by file name)
SortedNames == <<nA, nE, nF, nG, nH, nR, nX, nZ, nU>>

Range(s) == {s[i] : i \in DOMAIN s}

\* filepath.Dir
Dir(path) == SubSeq(path, 1, Len(path) - 1)
\* the file part of filepath.Split
Base(path) == path[Len(path)]
\* path.Join(directory, name), and the "/"-concatenation of line 85
Join(directory, name) == Append(directory, name)
\* strings.HasSuffix(name, "." + ext)
HasSuffix(name, ext) == Len(name) >= 2 /\ name[Len(name)] = ext

\* q is p or lies below p
IsUnder(q, p) == Len(q) >= Len(p) /\ SubSeq(q, 1, Len(p)) = p

----------------------------------------------------------------------------
(* The filesystem *)

\* what a file path holds: tag is absent (no such file), unreadable (the file
\* is there but ioutil.ReadFile fails on it), malformed (the decoder fails on
\* it), null (the decoder returns nil) or struct (the decoder returns a
\* Configuration with these containers)
Content(tag, b, f, t) == [tag |-> tag, Backends |-> b, Frontends |-> f, TLS |-> t]

IsFile(path, fl) == path \in DOMAIN fl /\ fl[path].tag # "absent"
\* os.Stat succeeds
StatOK(path, ds, fl) == path \in ds \/ IsFile(path, fl)

\* ioutil.ReadDir succeeds
ReadDirOK(directory, ds) == directory \in ds /\ directory # U

\* ioutil.ReadDir: the names of the entries of directory, sorted by name
ReadDir(directory, ds, fl) ==
    LET Here(n) == StatOK(Join(directory, n), ds, fl)
    IN  SelectSeq(SortedNames, Here)

----------------------------------------------------------------------------
(* Configurations *)

NoErr == "nil"

EmptyFn  == [n \in {} |-> "v"]
NilMap   == [isNil |-> TRUE,  m |-> EmptyFn]
MakeMap  == [isNil |-> FALSE, m |-> EmptyFn]
NilSlice == [isNil |-> TRUE,  s |-> <<>>]

Absent == Content("absent", NilMap, NilMap, NilSlice)
Unreadable == Content("unreadable", NilMap, NilMap, NilSlice)
Malformed == Content("malformed", NilMap, NilMap, NilSlice)
Null == Content("null", NilMap, NilMap, NilSlice)
Map1(name, v) == [isNil |-> FALSE, m |-> [n \in {name} |-> v]]
Slice(s) == [isNil |-> FALSE, s |-> s]

\* a nil *types.Configuration
NilConfiguration ==
    [isNil |-> TRUE, Backends |-> NilMap, Frontends |-> NilMap, TLS |-> NilSlice]

\* &types.Configuration{Frontends: make(...), Backends: make(...)}
NewConfiguration ==
    [isNil |-> FALSE, Backends |-> MakeMap, Frontends |-> MakeMap, TLS |-> NilSlice]

\* The decoder (CreateConfiguration, DecodeConfiguration): what a file holds is
\* what decoding its bytes gives; every decoding allocates fresh TLS objects,
\* named here by the file and their position in it.
Decode(filename, content) ==
    IF content.tag = "malformed" THEN [cfg |-> NilConfiguration, err |-> "decode"]
    ELSE IF content.tag = "null" THEN [cfg |-> NilConfiguration, err |-> NoErr]
    ELSE [cfg |-> [isNil     |-> FALSE,
                   Backends  |-> content.Backends,
                   Frontends |-> content.Frontends,
                   TLS       |-> [isNil |-> content.TLS.isNil,
                                  s |-> [i \in 1..Len(content.TLS.s) |->
                                           [ptr |-> <<filename, i>>,
                                            val |-> content.TLS.s[i]]]]],
          err |-> NoErr]

CreateConfiguration(filename, content) == Decode(filename, content)
DecodeConfiguration(filename, content) == Decode(filename, content)

readFile(filename, fl) ==
    IF Len(filename) > 0
    THEN IF IsFile(filename, fl) /\ fl[filename].tag # "unreadable"
         THEN [content |-> fl[filename], err |-> NoErr]
         ELSE [content |-> Absent, err |-> "read"]
    ELSE [content |-> Absent, err |-> "invalid filename"]

\* loadFileConfig answering a failed read or decoding with an empty
\* Configuration instead of the error
loadFileConfigSkipsErrors(filename, parseTemplate, fl) ==
    LET rd == readFile(filename, fl)
        dec == IF parseTemplate THEN CreateConfiguration(filename, rd.content)
               ELSE DecodeConfiguration(filename, rd.content)
        c == dec.cfg
    IN  IF rd.err # NoErr \/ dec.err # NoErr THEN [cfg |-> NewConfiguration, err |-> NoErr]
        ELSE IF c.isNil \/ (c.Backends.isNil /\ c.Frontends.isNil /\ c.TLS.isNil)
             THEN [cfg |-> NewConfiguration, err |-> NoErr]
             ELSE [cfg |-> c, err |-> NoErr]

loadFileConfig(filename, parseTemplate, fl) ==
    LET rd == readFile(filename, fl)
        dec == IF parseTemplate THEN CreateConfiguration(filename, rd.content)
               ELSE DecodeConfiguration(filename, rd.content)
        c == dec.cfg
    IN  IF rd.err # NoErr THEN [cfg |-> NilConfiguration, err |-> "error reading configuration file"]
        ELSE IF dec.err # NoErr THEN [cfg |-> NilConfiguration, err |-> dec.err]
        ELSE IF c.isNil \/ (c.Backends.isNil /\ c.Frontends.isNil /\ c.TLS.isNil)
             THEN [cfg |-> NewConfiguration, err |-> NoErr]
             ELSE [cfg |-> c, err |-> NoErr]

\* MergeMap with the test of lines 278 and 286 inverted: only a name that is
\* already configured is written
MergeMapInverted(acc, new) ==
    [isNil |-> acc.isNil,
     m |-> [n \in DOMAIN acc.m |->
              IF n \in DOMAIN new.m THEN new.m[n] ELSE acc.m[n]]]

\* MergeMap writing every entry of the fragment: a later fragment replaces
\* the entry of an earlier one
MergeMapLastWins(acc, new) ==
    [isNil |-> acc.isNil,
     m |-> [n \in DOMAIN acc.m \cup DOMAIN new.m |->
              IF n \in DOMAIN new.m THEN new.m[n] ELSE acc.m[n]]]

\* the loops of lines 277-291: a name already in the accumulator keeps its entry
MergeMap(acc, new) ==
    [isNil |-> acc.isNil,
     m |-> [n \in DOMAIN acc.m \cup DOMAIN new.m |->
              IF n \in DOMAIN acc.m THEN acc.m[n] ELSE new.m[n]]]

\* every order in which a range over a Go map can visit the set S
RECURSIVE Perms(_)
Perms(S) ==
    IF S = {} THEN {<<>>}
    ELSE UNION {{<<x>> \o p : p \in Perms(S \ {x})} : x \in S}

\* append(slice, xs...)
AppendAll(slice, xs) ==
    IF Len(xs) = 0 THEN slice ELSE [isNil |-> FALSE, s |-> slice.s \o xs]

\* configTLSMapsAdd comparing the TLS configurations by what they hold
configTLSMapsAddByValue(tlsMap, confs) ==
    tlsMap \cup {confs[i] : i \in {k \in DOMAIN confs :
                                    /\ \A known \in tlsMap : known.val # confs[k].val
                                    /\ \A j \in 1..(k - 1) : confs[j].val # confs[k].val}}

\* the loop of lines 293-299: configTLSMaps is keyed by the pointer, so a
\* configuration is skipped only when this very object is already a key
configTLSMapsAdd(tlsMap, confs) == tlsMap \cup Range(confs)

RECURSIVE loadFileConfigFromDirectory(_, _, _, _, _)
RECURSIVE mergeItems(_, _, _, _, _, _)

\* The for loop of lines 258-301 from item i on. st holds the accumulator cfg,
\* the error that ended the loop, configTLSMaps (tls) and the files handed to
\* loadFileConfig so far (loaded). The result is the set of the possible
\* outcomes: the order of a range over configTLSMaps is not fixed.
mergeItems(directory, fileList, i, st, ds, fl) ==
    IF i > Len(fileList) THEN {st}
    ELSE LET name == fileList[i]
             item == Join(directory, name)
         IN  IF item \in ds
             THEN UNION {
                    IF o.err # NoErr
                    THEN {[st EXCEPT !.cfg = o.cfg, !.loaded = o.loaded,
                                     !.err = "unable to load content configuration from subdirectory"]}
                    ELSE mergeItems(directory, fileList, i + 1,
                                    [st EXCEPT !.cfg = o.cfg, !.loaded = o.loaded], ds, fl)
                    : o \in loadFileConfigFromDirectory(item, st.cfg, st.loaded, ds, fl)}
             ELSE IF ~HasSuffix(name, "toml") /\ ~HasSuffix(name, "tmpl")
             THEN mergeItems(directory, fileList, i + 1, st, ds, fl)
             ELSE LET c == loadFileConfig(item, TRUE, fl)
                      tr == Append(st.loaded, item)
                  IN  IF c.err # NoErr
                      THEN {[st EXCEPT !.err = c.err, !.loaded = tr]}
                      ELSE mergeItems(directory, fileList, i + 1,
                             [cfg |-> [st.cfg EXCEPT
                                         !.Backends = MergeMap(@, c.cfg.Backends),
                                         !.Frontends = MergeMap(@, c.cfg.Frontends)],
                              err |-> NoErr,
                              tls |-> configTLSMapsAdd(st.tls, c.cfg.TLS.s),
                              loaded |-> tr], ds, fl)

loadFileConfigFromDirectory(directory, config, loaded, ds, fl) ==
    IF ~ReadDirOK(directory, ds)
    THEN {[cfg |-> config, err |-> "unable to read directory", loaded |-> loaded]}
    ELSE LET fileList == ReadDir(directory, ds, fl)
             c0 == IF config.isNil THEN NewConfiguration ELSE config
             ends == mergeItems(directory, fileList, 1,
                                [cfg |-> c0, err |-> NoErr, tls |-> {}, loaded |-> loaded],
                                ds, fl)
         IN  UNION {
               IF st.err # NoErr
               THEN {[cfg |-> st.cfg, err |-> st.err, loaded |-> st.loaded]}
               ELSE {[cfg |-> [st.cfg EXCEPT !.TLS = AppendAll(@, order)],
                      err |-> NoErr, loaded |-> st.loaded] : order \in Perms(st.tls)}
               : st \in ends}

\* BuildConfiguration: the set of its possible results (cfg, err), each with the
\* files it handed to loadFileConfig, in order
BuildConfiguration(directory, filename, traefikFile, ds, fl) ==
    IF Len(directory) > 0
    THEN loadFileConfigFromDirectory(directory, NilConfiguration, <<>>, ds, fl)
    ELSE IF Len(filename) > 0
    THEN LET c == loadFileConfig(filename, TRUE, fl)
         IN  {[cfg |-> c.cfg, err |-> c.err, loaded |-> <<filename>>]}
    ELSE IF Len(traefikFile) > 0
    THEN LET c == loadFileConfig(traefikFile, FALSE, fl)
         IN  {[cfg |-> c.cfg, err |-> c.err, loaded |-> <<traefikFile>>]}
    ELSE {[cfg |-> NilConfiguration,
           err |-> "Error using file configuration backend, no filename defined",
           loaded |-> <<>>]}

----------------------------------------------------------------------------
(* The watch set *)

EmptyWd == [p \in {} |-> <<>>]
MapSet(wd, k, v) == [p \in DOMAIN wd \cup {k} |-> IF p = k THEN v ELSE wd[p]]
MapDelete(wd, ks) == [p \in DOMAIN wd \ ks |-> wd[p]]

RECURSIVE getDirectoriesRecursively(_, _, _, _)
RECURSIVE scanItems(_, _, _, _, _, _)

\* the for loop of lines 83-91 from item i on; st holds directories, the error
\* and watchedDirectories as written so far
scanItems(rootDir, fileList, i, st, ds, fl) ==
    IF i > Len(fileList) THEN st
    ELSE LET item == Join(rootDir, fileList[i])
         IN  IF item \in ds
             THEN LET subDir == getDirectoriesRecursively(item, st.wd, ds, fl)
                  IN  IF subDir.err # NoErr
                      THEN [dirs |-> <<>>, wd |-> subDir.wd,
                            err |-> "unable to initialize recursively sub-directories list"]
                      ELSE scanItems(rootDir, fileList, i + 1,
                                     [dirs |-> st.dirs \o subDir.dirs, err |-> NoErr,
                                      wd |-> subDir.wd], ds, fl)
             ELSE scanItems(rootDir, fileList, i + 1, st, ds, fl)

\* getDirectoriesRecursively without the return of lines 73-75: a path that is
\* no directory is recorded like a directory without entries
getDirectoriesRecursivelyAnyPath(rootDir, wd, ds, fl) ==
    IF ~StatOK(rootDir, ds, fl)
    THEN [dirs |-> <<>>, err |-> "unable to stat", wd |-> wd]
    ELSE IF rootDir \in ds /\ ~ReadDirOK(rootDir, ds)
    THEN [dirs |-> <<>>, err |-> "unable to initialize sub-directories list", wd |-> wd]
    ELSE LET r == scanItems(rootDir, ReadDir(rootDir, ds, fl), 1,
                            [dirs |-> <<rootDir>>, err |-> NoErr, wd |-> wd], ds, fl)
         IN  IF r.err # NoErr THEN r
             ELSE [dirs |-> r.dirs, err |-> NoErr, wd |-> MapSet(r.wd, rootDir, r.dirs)]

\* returns the list (dirs), the error and watchedDirectories as it leaves it
getDirectoriesRecursively(rootDir, wd, ds, fl) ==
    IF ~StatOK(rootDir, ds, fl)
    THEN [dirs |-> <<>>, err |-> "unable to stat", wd |-> wd]
    ELSE IF rootDir \notin ds
    THEN [dirs |-> <<>>, err |-> NoErr, wd |-> wd]
    ELSE IF ~ReadDirOK(rootDir, ds)
    THEN [dirs |-> <<>>, err |-> "unable to initialize sub-directories list", wd |-> wd]
    ELSE LET r == scanItems(rootDir, ReadDir(rootDir, ds, fl), 1,
                            [dirs |-> <<rootDir>>, err |-> NoErr, wd |-> wd], ds, fl)
         IN  IF r.err # NoErr THEN r
             ELSE [dirs |-> r.dirs, err |-> NoErr, wd |-> MapSet(r.wd, rootDir, r.dirs)]

----------------------------------------------------------------------------
(* The watcher (fsnotify) *)

NoWatcher == [state |-> "none", requested |-> {}, watches |-> {}, moved |-> {}]

\* watcher.Add(dir) for every dir of the list: it fails for a path that is
\* gone, and else watches what is now at the path
WatcherAddAll(w, list, ds, fl) ==
    LET added == {d \in Range(list) : StatOK(d, ds, fl)}
    IN  [w EXCEPT !.requested = @ \cup Range(list),
                  !.watches = @ \cup added, !.moved = @ \ added]

\* watcher.Remove(dir) for every dir of the list
WatcherRemoveAll(w, list) ==
    [w EXCEPT !.requested = @ \ Range(list),
              !.watches = @ \ Range(list), !.moved = @ \ Range(list)]

Reverse(s) == [i \in 1..Len(s) |-> s[Len(s) + 1 - i]]

Event(name, op) == [Name |-> name, Op |-> op]

Call(op, path) == <<op, path>>
Calls(op, list) == [i \in 1..Len(list) |-> Call(op, list[i])]
Callback == Call("callback", <<>>)
NumCallbacks(calls) == Cardinality({i \in DOMAIN calls : calls[i] = Callback})

\* eventTarget without the precedence of Filename
eventTargetFallback(filename, traefikFile) == traefikFile

\* lines 137-142: the file whose base name an event is compared with
eventTarget(filename, traefikFile) ==
    IF Len(filename) > 0 THEN filename ELSE traefikFile

\* onRemove walking the recorded list from its first entry to its last
onRemoveForward(evt, wd, w) ==
    IF evt.Name \in DOMAIN wd
    THEN LET subDirectories == wd[evt.Name]
         IN  [wd |-> MapDelete(wd, Range(subDirectories)),
              watcher |-> WatcherRemoveAll(w, subDirectories),
              scan |-> "",
              calls |-> Append(Calls("Remove", subDirectories), Callback)]
    ELSE [wd |-> wd, watcher |-> w, scan |-> "", calls |-> <<Callback>>]

\* Lines 152-157 and 168: a Remove or Rename event in directory-tree mode.
\* calls lists, in order, the calls of watcher.Remove, watcher.Add and
\* callback; scan is the error of getDirectoriesRecursively ("": not called).
onRemove(evt, wd, w) ==
    IF evt.Name \in DOMAIN wd
    THEN LET subDirectories == wd[evt.Name]
         IN  [wd |-> MapDelete(wd, Range(subDirectories)),
              watcher |-> WatcherRemoveAll(w, Reverse(subDirectories)),
              scan |-> "",
              calls |-> Append(Calls("Remove", Reverse(subDirectories)), Callback)]
    ELSE [wd |-> wd, watcher |-> w, scan |-> "", calls |-> <<Callback>>]

\* onCreate with the callback moved into the branch that adds the watches
onCreateSkipsCallback(evt, wd, w, ds, fl) ==
    LET dirToAdd == getDirectoriesRecursively(evt.Name, wd, ds, fl)
    IN  IF dirToAdd.err # NoErr
        THEN [wd |-> dirToAdd.wd, watcher |-> w, scan |-> dirToAdd.err, calls |-> <<>>]
        ELSE [wd |-> dirToAdd.wd,
              watcher |-> WatcherAddAll(w, dirToAdd.dirs, ds, fl),
              scan |-> NoErr,
              calls |-> Append(Calls("Add", dirToAdd.dirs), Callback)]

\* lines 159-168: a Create event in directory-tree mode
onCreate(evt, wd, w, ds, fl) ==
    LET dirToAdd == getDirectoriesRecursively(evt.Name, wd, ds, fl)
    IN  IF dirToAdd.err # NoErr
        THEN [wd |-> dirToAdd.wd, watcher |-> w, scan |-> dirToAdd.err,
              calls |-> <<Callback>>]
        ELSE [wd |-> dirToAdd.wd,
              watcher |-> WatcherAddAll(w, dirToAdd.dirs, ds, fl),
              scan |-> NoErr,
              calls |-> Append(Calls("Add", dirToAdd.dirs), Callback)]

\* Lines 136-169 without the body of the callback: what one event does to
\* watchedDirectories (wd) and to the watcher (w), and its calls.
dispatch(evt, directory, filename, traefikFile, wd, w, ds, fl) ==
    IF Len(directory) = 0
    THEN [wd |-> wd, watcher |-> w, scan |-> "",
          calls |-> IF Base(evt.Name) = Base(eventTarget(filename, traefikFile))
                    THEN <<Callback>> ELSE <<>>]
    ELSE IF evt.Op = "Remove" \/ evt.Op = "Rename"
    THEN onRemove(evt, wd, w)
    ELSE IF evt.Op = "Create"
    THEN onCreate(evt, wd, w, ds, fl)
    ELSE [wd |-> wd, watcher |-> w, scan |-> "", calls |-> <<Callback>>]

ConfigMessage(cfg, origin) ==
    [ProviderName |-> "file", Configuration |-> cfg, origin |-> origin]

\* watcherCallback without the return of line 195: it sends what the failed
\* rebuild returned
watcherCallbackIgnoresError(directory, filename, traefikFile, ds, fl) ==
    LET watchItem == IF Len(directory) > 0 THEN directory
                     ELSE IF Len(filename) > 0 THEN filename ELSE traefikFile
    IN  IF ~StatOK(watchItem, ds, fl)
        THEN {[stat |-> FALSE, err |-> "skipped", send |-> <<>>]}
        ELSE {[stat |-> TRUE, err |-> o.err, send |-> <<ConfigMessage(o.cfg, "reload")>>]
              : o \in BuildConfiguration(directory, filename, traefikFile, ds, fl)}

\* watcherCallback: the set of its possible outcomes; stat tells whether os.Stat
\* succeeded, err is the error of the rebuild ("skipped": none was attempted)
\* and send the messages it sends on the channel
watcherCallback(directory, filename, traefikFile, ds, fl) ==
    LET watchItem == IF Len(directory) > 0 THEN directory
                     ELSE IF Len(filename) > 0 THEN filename ELSE traefikFile
    IN  IF ~StatOK(watchItem, ds, fl)
        THEN {[stat |-> FALSE, err |-> "skipped", send |-> <<>>]}
        ELSE {[stat |-> TRUE, err |-> o.err,
               send |-> IF o.err # NoErr THEN <<>>
                        ELSE <<ConfigMessage(o.cfg, "reload")>>]
              : o \in BuildConfiguration(directory, filename, traefikFile, ds, fl)}

\* callback is not invoked
NoCallback == {[stat |-> FALSE, err |-> "not invoked", send |-> <<>>]}

----------------------------------------------------------------------------
(* The configuration channel *)

\* the sender of the message of this origin is blocked in its send
Blocked(origin) == \E i \in DOMAIN chan : i > ChanCap /\ chan[i].origin = origin

----------------------------------------------------------------------------
(* Startup: Provider.Init, then Provide *)

Idle == [kind |-> "none", Name |-> <<>>, Op |-> "", calls |-> <<>>, scan |-> "",
         stat |-> FALSE, err |-> "", sent |-> 0]

NoOutcome == [cfg |-> NilConfiguration, err |-> "", loaded |-> <<>>]

At(at, err) == [at |-> at, err |-> err]

\* ProvideBuild without the return of line 42
ProvideBuildIgnoresError ==
    /\ pc.at = "build"
    /\ \E o \in BuildConfiguration(Directory, Filename, TraefikFile, dirs, files) :
         /\ configuration' = o
         /\ pc' = IF Watch THEN At("watch", NoErr) ELSE At("send", NoErr)
    /\ UNCHANGED <<Directory, Filename, TraefikFile, Watch, watchedDirectories, dirs,
                   files, watcher, events, errs, stop, loop, chan, delivered, last, ops>>

\* lines 40-43
ProvideBuild ==
    /\ pc.at = "build"
    /\ \E o \in BuildConfiguration(Directory, Filename, TraefikFile, dirs, files) :
         /\ configuration' = o
         /\ pc' = IF o.err # NoErr THEN At("returned", o.err)
                  ELSE IF Watch THEN At("watch", NoErr) ELSE At("send", NoErr)
    /\ UNCHANGED <<Directory, Filename, TraefikFile, Watch, watchedDirectories, dirs,
                   files, watcher, events, errs, stop, loop, chan, delivered, last, ops>>

\* lines 45-61 with addWatcher's lines 116-129: newWatcher tells whether
\* fsnotify.NewWatcher succeeds; pool.Go starts the routine
ProvideWatch ==
    /\ pc.at = "watch"
    /\ \E newWatcher \in BOOLEAN :
         LET rec == IF Len(Directory) > 0
                    THEN getDirectoriesRecursively(Directory, watchedDirectories, dirs, files)
                    ELSE IF Len(Filename) > 0
                    THEN [dirs |-> <<Dir(Filename)>>, err |-> NoErr, wd |-> watchedDirectories]
                    ELSE [dirs |-> <<Dir(TraefikFile)>>, err |-> NoErr, wd |-> watchedDirectories]
         IN  /\ watchedDirectories' = rec.wd
             /\ IF rec.err # NoErr
                THEN /\ pc' = At("returned", "unable to initialize provider File")
                     /\ UNCHANGED <<watcher, loop>>
                ELSE IF ~newWatcher
                THEN /\ pc' = At("returned", "error creating file watcher")
                     /\ UNCHANGED <<watcher, loop>>
                ELSE /\ watcher' = WatcherAddAll([NoWatcher EXCEPT !.state = "open"],
                                                 rec.dirs, dirs, files)
                     /\ loop' = "Running"
                     /\ pc' = At("send", NoErr)
    /\ UNCHANGED <<Directory, Filename, TraefikFile, Watch, dirs, files, events, errs,
                   stop, configuration, chan, delivered, last, ops>>

\* line 63: the send of the initial snapshot; Provide returns nil once the
\* message is in the channel's buffer or taken by the consumer
ProvideSend ==
    /\ pc.at = "send"
    /\ chan' = Append(chan, ConfigMessage(configuration.cfg, "initial"))
    /\ pc' = At("sent", NoErr)
    /\ UNCHANGED <<Directory, Filename, TraefikFile, Watch, watchedDirectories, dirs,
                   files, watcher, events, errs, stop, configuration, loop, delivered,
                   last, ops>>

----------------------------------------------------------------------------
(* The event loop: the routine of lines 129-174 *)

\* AtSelect for a loop whose send never blocks
AtSelectWhileBlocked == loop = "Running"

\* the routine is at its select: it runs and is not inside a send
AtSelect == loop = "Running" /\ ~Blocked("reload")

\* LoopStop without the deferred watcher.Close()
LoopStopLeavesWatcherOpen ==
    /\ AtSelect
    /\ stop
    /\ loop' = "Stopped"
    /\ last' = [Idle EXCEPT !.kind = "stop"]
    /\ UNCHANGED <<Directory, Filename, TraefikFile, Watch, watchedDirectories, dirs,
                   files, watcher, events, errs, stop, pc, configuration, chan, delivered,
                   ops>>

\* case <-stop, with the deferred watcher.Close()
LoopStop ==
    /\ AtSelect
    /\ stop
    /\ loop' = "Stopped"
    /\ watcher' = [NoWatcher EXCEPT !.state = "closed"]
    /\ last' = [Idle EXCEPT !.kind = "stop"]
    /\ UNCHANGED <<Directory, Filename, TraefikFile, Watch, watchedDirectories, dirs,
                   files, events, errs, stop, pc, configuration, chan, delivered, ops>>

\* case evt := <-watcher.Events
LoopEvent ==
    /\ AtSelect
    /\ events # <<>>
    /\ LET evt == Head(events)
           d == dispatch(evt, Directory, Filename, TraefikFile, watchedDirectories,
                         watcher, dirs, files)
       IN  \E cb \in (IF NumCallbacks(d.calls) > 0
                      THEN watcherCallback(Directory, Filename, TraefikFile, dirs, files)
                      ELSE NoCallback) :
             /\ events' = Tail(events)
             /\ watchedDirectories' = d.wd
             /\ watcher' = d.watcher
             /\ chan' = chan \o cb.send
             /\ last' = [kind |-> "event", Name |-> evt.Name, Op |-> evt.Op,
                         calls |-> d.calls, scan |-> d.scan, stat |-> cb.stat,
                         err |-> cb.err, sent |-> Len(cb.send)]
    /\ UNCHANGED <<Directory, Filename, TraefikFile, Watch, dirs, files, errs, stop, pc,
                   configuration, loop, delivered, ops>>

\* LoopError returning from the routine after it logged the error
LoopErrorReturns ==
    /\ loop = "Running" /\ ~Blocked("reload")
    /\ errs > 0
    /\ errs' = errs - 1
    /\ loop' = "Stopped"
    /\ watcher' = [NoWatcher EXCEPT !.state = "closed"]
    /\ last' = [Idle EXCEPT !.kind = "error"]
    /\ UNCHANGED <<Directory, Filename, TraefikFile, Watch, watchedDirectories, dirs,
                   files, events, stop, pc, configuration, chan, delivered, ops>>

\* case err := <-watcher.Errors
LoopError ==
    /\ AtSelect
    /\ errs > 0
    /\ errs' = errs - 1
    /\ last' = [Idle EXCEPT !.kind = "error"]
    /\ UNCHANGED <<Directory, Filename, TraefikFile, Watch, watchedDirectories, dirs,
                   files, watcher, events, stop, pc, configuration, loop, chan,
                   delivered, ops>>

----------------------------------------------------------------------------
(* The environment: the consumer, the pool, the filesystem and the watcher *)

\* the consumer takes the oldest message of the channel
Receive ==
    /\ chan # <<>>
    /\ delivered' = Append(delivered, Head(chan).origin)
    /\ chan' = Tail(chan)
    /\ UNCHANGED <<Directory, Filename, TraefikFile, Watch, watchedDirectories, dirs,
                   files, watcher, events, errs, stop, pc, configuration, loop, last, ops>>

\* the pool is stopped: the routine's stop channel holds a value
RaiseStop ==
    /\ loop = "Running"
    /\ ~stop
    /\ stop' = TRUE
    /\ UNCHANGED <<Directory, Filename, TraefikFile, Watch, watchedDirectories, dirs,
                   files, watcher, events, errs, pc, configuration, loop, chan,
                   delivered, last, ops>>

\* the watcher reports an error of its own
WatcherError ==
    /\ watcher.state = "open"
    /\ ops < MaxOps
    /\ errs' = errs + 1
    /\ ops' = ops + 1
    /\ UNCHANGED <<Directory, Filename, TraefikFile, Watch, watchedDirectories, dirs,
                   files, watcher, events, stop, pc, configuration, loop, chan,
                   delivered, last>>

\* the paths whose watch is on the directory now at that path
LiveWatches == watcher.watches \ watcher.moved

\* the watcher reports a change of path when it watches the directory that
\* holds path, and the removal or the move of a directory it watches
Notify(path, op) ==
    IF /\ watcher.state = "open"
       /\ \/ Dir(path) \in LiveWatches
          \/ op \in {"Remove", "Rename"} /\ path \in LiveWatches
    THEN Append(events, Event(path, op))
    ELSE events

\* The filesystem changes while Provide is between its build and its watch
\* set-up, or while the event loop runs: a change at another time is seen by
\* nobody (a change before the build is another tree to start on).
CanChange ==
    /\ ops < MaxOps
    /\ pc.at = "watch" \/ loop = "Running"

Children(path) ==
    {q \in dirs : Len(q) = Len(path) + 1 /\ IsUnder(q, path)}
    \cup {q \in FilePaths : IsFile(q, files) /\ Dir(q) = path}

Mkdir(d) ==
    /\ CanChange
    /\ d \notin dirs
    /\ (Len(d) > 1 => Dir(d) \in dirs)
    /\ dirs' = dirs \cup {d}
    /\ events' = Notify(d, "Create")
    /\ ops' = ops + 1
    /\ UNCHANGED <<Directory, Filename, TraefikFile, Watch, watchedDirectories, files,
                   watcher, errs, stop, pc, configuration, loop, chan, delivered, last>>

\* a directory is moved into the tree with the directories it holds, one of
\* them a directory that may not be listed
MoveIn(d) ==
    /\ CanChange
    /\ d \notin dirs
    /\ Dir(d) \in dirs
    /\ dirs' = dirs \cup {q \in DirPaths \cup {U} : IsUnder(q, d)}
    /\ events' = Notify(d, "Create")
    /\ ops' = ops + 1
    /\ UNCHANGED <<Directory, Filename, TraefikFile, Watch, watchedDirectories, files,
                   watcher, errs, stop, pc, configuration, loop, chan, delivered, last>>

\* rmdir of an empty directory: the kernel drops its watch, and so does fsnotify
Rmdir(d) ==
    /\ CanChange
    /\ d \in dirs
    /\ Children(d) = {}
    /\ dirs' = dirs \ {d}
    /\ events' = Notify(d, "Remove")
    /\ watcher' = [watcher EXCEPT !.watches = @ \ ({d} \ watcher.moved)]
    /\ ops' = ops + 1
    /\ UNCHANGED <<Directory, Filename, TraefikFile, Watch, watchedDirectories, files,
                   errs, stop, pc, configuration, loop, chan, delivered, last>>

\* a directory is moved away with all that it holds; the watches on it and
\* on what it holds stay, on the directories that moved
RenameDir(d) ==
    /\ CanChange
    /\ d \in dirs
    /\ dirs' = {q \in dirs : ~IsUnder(q, d)}
    /\ files' = [q \in FilePaths |-> IF IsUnder(q, d) THEN Absent ELSE files[q]]
    /\ events' = Notify(d, "Rename")
    /\ watcher' = [watcher EXCEPT
                     !.moved = @ \cup {w \in watcher.watches : IsUnder(w, d)}]
    /\ ops' = ops + 1
    /\ UNCHANGED <<Directory, Filename, TraefikFile, Watch, watchedDirectories,
                   errs, stop, pc, configuration, loop, chan, delivered, last>>

\* a file is created or rewritten
WriteFile(f, content) ==
    /\ CanChange
    /\ Dir(f) \in dirs
    /\ files[f] # content
    /\ files' = [files EXCEPT ![f] = content]
    /\ events' = Notify(f, IF IsFile(f, files) THEN "Write" ELSE "Create")
    /\ ops' = ops + 1
    /\ UNCHANGED <<Directory, Filename, TraefikFile, Watch, watchedDirectories, dirs,
                   watcher, errs, stop, pc, configuration, loop, chan, delivered, last>>

\* a file is removed, or moved away
RemoveFile(f, op) ==
    /\ CanChange
    /\ IsFile(f, files)
    /\ files' = [files EXCEPT ![f] = Absent]
    /\ events' = Notify(f, op)
    /\ ops' = ops + 1
    /\ UNCHANGED <<Directory, Filename, TraefikFile, Watch, watchedDirectories, dirs,
                   watcher, errs, stop, pc, configuration, loop, chan, delivered, last>>

\* the mode bits of a file change
ChmodFile(f) ==
    /\ CanChange
    /\ IsFile(f, files)
    /\ events' = Notify(f, "Chmod")
    /\ events' # events
    /\ ops' = ops + 1
    /\ UNCHANGED <<Directory, Filename, TraefikFile, Watch, watchedDirectories, dirs,
                   files, watcher, errs, stop, pc, configuration, loop, chan, delivered,
                   last>>

----------------------------------------------------------------------------
(* What files hold *)


\* the files the environment writes, removes or chmods while the provider runs
TouchedFiles == {F, X}

\* the contents the environment writes while the provider runs
WrittenContents ==
    {Malformed, Content("struct", Map1("X", "v1"), Map1("X", "v1"), NilSlice)}

----------------------------------------------------------------------------
(* The provider with its event loop *)

Settings ==
    {[Directory |-> R,    Filename |-> F,    TraefikFile |-> X],
     [Directory |-> <<>>, Filename |-> F,    TraefikFile |-> X],
     [Directory |-> <<>>, Filename |-> <<>>, TraefikFile |-> X],
     [Directory |-> <<>>, Filename |-> <<>>, TraefikFile |-> <<>>]}

NoFiles == [q \in FilePaths |-> Absent]

\* the trees the provider may be started on
StartTrees ==
    {[dirs |-> {}, files |-> NoFiles],
     [dirs |-> {R}, files |-> [NoFiles EXCEPT ![X] = CHOOSE c \in WrittenContents : c # Malformed]],
     [dirs |-> {R, A}, files |-> [NoFiles EXCEPT ![F] = Malformed]],
     [dirs |-> {R, A, Z},
      files |-> [q \in FilePaths |-> CHOOSE c \in WrittenContents : c # Malformed]]}

InitWith(trees, watch) ==
    /\ \E s \in Settings :
         /\ Directory = s.Directory
         /\ Filename = s.Filename
         /\ TraefikFile = s.TraefikFile
    /\ Watch \in watch
    /\ \E t \in trees : dirs = t.dirs /\ files = t.files
    /\ watchedDirectories = EmptyWd
    /\ watcher = NoWatcher
    /\ events = <<>>
    /\ errs = 0
    /\ stop = FALSE
    /\ pc = At("build", NoErr)
    /\ configuration = NoOutcome
    /\ loop = "NotStarted"
    /\ chan = <<>>
    /\ delivered = <<>>
    /\ last = Idle
    /\ ops = 0

Init == InitWith(StartTrees, BOOLEAN)

Next ==
    \/ ProvideBuild
    \/ ProvideWatch
    \/ ProvideSend
    \/ LoopStop
    \/ LoopEvent
    \/ LoopError
    \/ Receive
    \/ RaiseStop
    \/ WatcherError
    \/ \E d \in DirPaths : Mkdir(d)
    \/ MoveIn(A)
    \/ \E d \in DirPaths : Rmdir(d)
    \/ \E d \in DirPaths : RenameDir(d)
    \/ \E f \in TouchedFiles : \E c \in WrittenContents : WriteFile(f, c)
    \/ \E f \in TouchedFiles : \E op \in {"Remove", "Rename"} : RemoveFile(f, op)
    \/ \E f \in TouchedFiles : ChmodFile(f)

Spec == Init /\ [][Next]_vars

\* The routine is scheduled fairly and its select chooses at random among the
\* cases that are ready, so the stop case is taken when it stays ready; the
\* consumer receives every message that waits for it.
Fairness ==
    /\ WF_vars(LoopStop)
    /\ WF_vars(Receive)

\* the provider watching, started on the tree of one directory and one file;
\* the environment makes the other directories and files while it runs
LiveTrees == {t \in StartTrees : t.dirs = {R}}

InitLive == InitWith(LiveTrees, {TRUE})

SpecLive == InitLive /\ [][Next]_vars /\ Fairness

----------------------------------------------------------------------------
(* The build pipeline alone: Provide without watching, on every tree *)

BuildContents ==
    {Unreadable, Malformed, Null,
     Content("struct", NilMap, NilMap, NilSlice),
     Content("struct", MakeMap, NilMap, NilSlice),
     Content("struct", Map1("X", "v1"), NilMap, NilSlice),
     Content("struct", NilMap, NilMap, Slice(<<"c">>)),
     Content("struct", Map1("X", "v2"), Map1("X", "v2"), Slice(<<"c", "c">>)),
     Content("struct", Map1("Y", "v1"), Map1("Y", "v1"), NilSlice)}

\* what the file that is no fragment may hold
OtherContents ==
    {Malformed, Null,
     Content("struct", Map1("X", "v1"), NilMap, NilSlice),
     Content("struct", Map1("W", "v1"), Map1("W", "v1"), Slice(<<"c">>))}

\* what the second fragment of the root directory may hold
SiblingContents ==
    {Content("struct", NilMap, NilMap, Slice(<<"c">>)),
     Content("struct", Map1("X", "v3"), Map1("Y", "v3"), Slice(<<"c">>))}

TreeDirs == {{}, {R}, {R, A}, {R, A, Z}}

BuildTrees ==
    {t \in [dirs : TreeDirs,
            files : {fl \in [FilePaths -> BuildContents \cup OtherContents
                                              \cup SiblingContents \cup {Absent}] :
                       /\ fl[X] \in OtherContents \cup {Absent}
                       /\ fl[E] \in SiblingContents \cup {Absent}
                       /\ \A f \in {F, G, H} : fl[f] \in BuildContents \cup {Absent}}] :
       \A f \in FilePaths : IsFile(f, t.files) => Dir(f) \in t.dirs}

InitBuild == InitWith(BuildTrees, {FALSE})

NextBuild ==
    \/ ProvideBuild
    \/ ProvideSend
    \/ Receive

SpecBuild == InitBuild /\ [][NextBuild]_vars

----------------------------------------------------------------------------
(* Properties *)

DirectoryMode == Len(Directory) > 0

\* the latest iteration of the event loop handled a filesystem event
HandledEvent == last.kind = "event"

\* this step is the event loop taking an event from watcher.Events
TakesEvent == events # <<>> /\ events' = Tail(events)

WatchItem ==
    IF Len(Directory) > 0 THEN Directory
    ELSE IF Len(Filename) > 0 THEN Filename ELSE TraefikFile

RebuildSucceeds ==
    \A o \in BuildConfiguration(Directory, Filename, TraefikFile, dirs, files) :
        o.err = NoErr

\* C1: in directory-tree mode every event the loop takes, whatever its kind
\* and also when the enumeration of a created path fails, makes its watch-set
\* calls first and then calls the reload callback, exactly once.
C1_ReloadOncePerEvent ==
    HandledEvent /\ DirectoryMode =>
        /\ NumCallbacks(last.calls) = 1
        /\ last.calls[Len(last.calls)] = Callback

C1_Witness ==
    /\ HandledEvent /\ DirectoryMode
    /\ last.Op = "Create"
    /\ last.scan \notin {"", NoErr}

\* C2: in directory-tree mode, once the loop has handled a Remove or Rename
\* event for a registered directory P, neither P nor anything below P is a key
\* of watchedDirectories or is watched.
C2_SubtreeUnwatched ==
    (/\ HandledEvent /\ DirectoryMode
     /\ last.Op \in {"Remove", "Rename"}
     /\ Call("Remove", last.Name) \in Range(last.calls))
    => \A q \in DOMAIN watchedDirectories \cup watcher.watches : ~IsUnder(q, last.Name)

\* C3: in directory-tree mode, once the loop has handled the Create event of a
\* new empty directory D below a registered root, a watch was requested for D
\* and the list recorded for that root holds D.
C3_RootListHoldsCreated ==
    (/\ HandledEvent /\ DirectoryMode
     /\ last.Op = "Create"
     /\ last.calls = <<Call("Add", last.Name), Callback>>)
    => \A root \in DOMAIN watchedDirectories :
          root # last.Name /\ IsUnder(last.Name, root)
            => last.Name \in Range(watchedDirectories[root])

\* C4: the first message the consumer receives is the snapshot of the initial
\* build, never one sent by the event loop.
C4_InitialSnapshotFirst ==
    delivered # <<>> => delivered[1] = "initial"

\* C5: an invocation of the reload callback sends exactly one snapshot when the
\* stat of the watch target and the rebuild both succeed, and none otherwise
\* (no rebuild is attempted after a failed stat); the channel and what the
\* consumer holds are then left as they were and the loop stays Running.
C5_PublishIffRebuilt ==
    [][TakesEvent /\ NumCallbacks(last'.calls) = 1 =>
         /\ IF StatOK(WatchItem, dirs, files) /\ RebuildSucceeds
            THEN \E o \in BuildConfiguration(Directory, Filename, TraefikFile, dirs, files) :
                    chan' = Append(chan, ConfigMessage(o.cfg, "reload"))
            ELSE chan' = chan
         /\ ~StatOK(WatchItem, dirs, files) => last'.err = "skipped"
         /\ delivered' = delivered
         /\ loop' = "Running"]_vars

C5_Witness ==
    /\ HandledEvent
    /\ last.stat /\ last.err \notin {NoErr, "skipped"}
    /\ "reload" \in Range(delivered)
    /\ loop = "Running"

\* C6: the routine starts Running and leaves Running only for Stopped, by
\* taking the stop signal at its select; an event or a watcher error leaves its
\* state alone; the watcher is closed exactly when the routine is Stopped.
C6_StopOnlyBySignal ==
    [][/\ (loop = "NotStarted" /\ loop' # loop => loop' = "Running")
       /\ (loop = "Running" /\ loop' # loop =>
              loop' = "Stopped" /\ stop /\ ~Blocked("reload"))
       /\ (TakesEvent \/ errs' < errs => loop' = loop)
       /\ (loop' = "Running" => watcher'.state = "open")
       /\ (loop' = "Stopped" <=> watcher'.state = "closed")]_vars

C6_Witness ==
    /\ loop = "Stopped"
    /\ watcher.state = "closed"
    /\ "reload" \in Range(delivered)

\* C7: in single-target mode an event calls the reload callback once when its
\* base name is that of the tracked file (Filename if set, else TraefikFile)
\* and not at all otherwise, and it changes neither watchedDirectories nor
\* what the watcher watches.
C7_SingleTarget ==
    [][TakesEvent /\ ~DirectoryMode =>
         /\ NumCallbacks(last'.calls) =
              (IF Base(Head(events).Name) =
                    Base(IF Len(Filename) > 0 THEN Filename ELSE TraefikFile)
               THEN 1 ELSE 0)
         /\ watchedDirectories' = watchedDirectories
         /\ watcher' = watcher]_vars

C7_Witness ==
    /\ HandledEvent /\ ~DirectoryMode
    /\ Len(Filename) > 0
    /\ last.Name = Filename
    /\ last.sent = 1

\* C8: when the initial build fails, Provide returns that error, nothing is
\* ever sent on the channel and the event loop is never started.
C8_FailedBuildReturnsError ==
    configuration.err \notin {"", NoErr} =>
        /\ pc = At("returned", configuration.err)
        /\ chan = <<>> /\ delivered = <<>>
        /\ loop = "NotStarted" /\ watcher = NoWatcher

C8_Witness ==
    /\ Watch
    /\ configuration.err = "decode"
    /\ pc.at = "returned"

\* C9: every Configuration the build pipeline returns without an error has a
\* non-nil Backends map and a non-nil Frontends map.
C9_MapsNeverNil ==
    pc.at # "build" /\ configuration.err = NoErr =>
        /\ ~configuration.cfg.isNil
        /\ ~configuration.cfg.Backends.isNil
        /\ ~configuration.cfg.Frontends.isNil

Recognized(f) == HasSuffix(Base(f), "toml") \/ HasSuffix(Base(f), "tmpl")

\* the fragment files of the tree below Directory
Fragments ==
    {f \in FilePaths : IsFile(f, files) /\ IsUnder(f, Directory) /\ Recognized(f)}

MapEntries(mp) == {<<n, mp.m[n]>> : n \in DOMAIN mp.m}

EntriesOf(f, container) ==
    IF files[f].tag = "struct" THEN MapEntries(files[f][container]) ELSE {}

NamesOf(f, container) == {e[1] : e \in EntriesOf(f, container)}

DistinctNames ==
    \A f, g \in Fragments : \A container \in {"Backends", "Frontends"} :
        f # g => NamesOf(f, container) \cap NamesOf(g, container) = {}

\* C10: in directory mode, when the names the fragment files (.toml, .tmpl, at
\* any depth) define are pairwise distinct, the merged Backends and Frontends
\* are the union of the entries of these files, and these files are all that
\* is loaded.
C10_MergeIsUnion ==
    (/\ pc.at # "build" /\ DirectoryMode
     /\ configuration.err = NoErr
     /\ DistinctNames)
    => /\ MapEntries(configuration.cfg.Backends) =
            UNION {EntriesOf(f, "Backends") : f \in Fragments}
       /\ MapEntries(configuration.cfg.Frontends) =
            UNION {EntriesOf(f, "Frontends") : f \in Fragments}
       /\ Range(configuration.loaded) = Fragments

C10_Witness ==
    /\ pc.at # "build" /\ DirectoryMode
    /\ configuration.err = NoErr
    /\ DistinctNames
    /\ Fragments = {F, G, H}
    /\ IsFile(X, files)
    /\ Cardinality(MapEntries(configuration.cfg.Backends)) = 2
    /\ Cardinality(MapEntries(configuration.cfg.Frontends)) = 1

\* the first fragment, in the order the merge visited them, that defines name
FirstDefining(name, container) ==
    LET visited == configuration.loaded
        i == CHOOSE i \in DOMAIN visited :
                 /\ name \in NamesOf(visited[i], container)
                 /\ \A j \in 1..(i - 1) : name \notin NamesOf(visited[j], container)
    IN  visited[i]

\* C11: in directory mode the merged Backends and Frontends hold, for every
\* name a fragment defines, exactly the entry of the fragment the merge
\* visited first among those that define it, and building again on the same
\* tree gives the same maps from the same order of visits.
C11_FirstVisitedWins ==
    (/\ pc.at # "build" /\ DirectoryMode
     /\ configuration.err = NoErr)
    => /\ Range(configuration.loaded) = Fragments
       /\ \A container \in {"Backends", "Frontends"} :
            LET merged == configuration.cfg[container]
                names == UNION {NamesOf(f, container) : f \in Fragments}
            IN  /\ DOMAIN merged.m = names
                /\ \A n \in names :
                     merged.m[n] = files[FirstDefining(n, container)][container].m[n]
       /\ \A again \in BuildConfiguration(Directory, Filename, TraefikFile, dirs, files) :
            /\ again.err = NoErr
            /\ again.loaded = configuration.loaded
            /\ again.cfg.Backends = configuration.cfg.Backends
            /\ again.cfg.Frontends = configuration.cfg.Frontends

C11_Witness ==
    /\ pc.at # "build" /\ DirectoryMode
    /\ configuration.err = NoErr
    /\ {F, G} \subseteq Fragments
    /\ EntriesOf(F, "Backends") = {<<"X", "v2">>}
    /\ EntriesOf(G, "Backends") = {<<"X", "v1">>}
    /\ MapEntries(configuration.cfg.Backends) = {<<"X", "v1">>}
    /\ MapEntries(configuration.cfg.Frontends) = {<<"X", "v2">>}

RECURSIVE Traversal(_, _, _)
RECURSIVE TraverseItems(_, _, _, _, _)

\* the items of fileList from the i-th on, in the order of the loop of line 258
TraverseItems(directory, fileList, i, ds, fl) ==
    IF i > Len(fileList) THEN <<>>
    ELSE LET item == Join(directory, fileList[i])
         IN  (IF item \in ds THEN Traversal(item, ds, fl)
              ELSE IF Recognized(item) THEN <<item>> ELSE <<>>)
             \o TraverseItems(directory, fileList, i + 1, ds, fl)

\* Traversal order: the fragment files below directory in the order in which
\* a merge that nothing stops reaches them (lines 258-271)
Traversal(directory, ds, fl) ==
    TraverseItems(directory, ReadDir(directory, ds, fl), 1, ds, fl)

\* the places, in traversal order, of the fragments that cannot be read or decoded
FailingFragments ==
    LET order == Traversal(Directory, dirs, files)
    IN  {i \in DOMAIN order : files[order[i]].tag \in {"unreadable", "malformed"}}

\* C12: in directory mode, when a fragment of the tree (at any depth) cannot be
\* read or decoded, the build fails, the fragments it loaded are those up to
\* the first failing one in traversal order and none after it, Provide sends
\* no snapshot, and a reload on this tree sends none either.
C12_FailureAbortsMerge ==
    (/\ pc.at # "build" /\ DirectoryMode
     /\ Directory \in dirs
     /\ FailingFragments # {})
    => LET order == Traversal(Directory, dirs, files)
           first == CHOOSE i \in FailingFragments : \A j \in FailingFragments : i <= j
       IN  /\ configuration.err # NoErr
           /\ configuration.loaded = SubSeq(order, 1, first)
           /\ pc = At("returned", configuration.err)
           /\ chan = <<>> /\ delivered = <<>>
           /\ \A cb \in watcherCallback(Directory, Filename, TraefikFile, dirs, files) :
                cb.stat /\ cb.err # NoErr /\ cb.send = <<>>

C12_Witness ==
    /\ pc.at # "build" /\ DirectoryMode
    /\ files[H] = Malformed
    /\ files[G].tag = "struct" /\ files[F].tag = "struct"
    /\ Traversal(Directory, dirs, files) = <<G, H, F>>
    /\ configuration.loaded = <<G, H>>
    /\ configuration.err = "unable to load content configuration from subdirectory"

\* the place of fragment f among the files the build loaded
PlaceOf(f) == CHOOSE i \in DOMAIN configuration.loaded : configuration.loaded[i] = f

\* C13: in directory mode a fragment that lies in a subdirectory of a directory
\* (at any depth below it) is loaded before every fragment file of that
\* directory itself, so a name both define keeps the subdirectory's entry.
C13_SubdirectoriesFirst ==
    (/\ pc.at # "build" /\ DirectoryMode
     /\ configuration.err = NoErr)
    => \A f, g \in Fragments :
          (Dir(g) # Dir(f) /\ IsUnder(g, Dir(f)))
          => /\ {f, g} \subseteq Range(configuration.loaded)
             /\ PlaceOf(g) < PlaceOf(f)
             /\ \A container \in {"Backends", "Frontends"} :
                  \A n \in NamesOf(f, container) \cap NamesOf(g, container) :
                     FirstDefining(n, container) # f

\* C14: when fsnotify.NewWatcher fails in Provide, the event loop is never
\* started and there is no watcher, and the snapshot of the initial build is
\* in the channel or with the consumer.
C14_WatcherFailureStillPublishes ==
    pc = At("returned", "error creating file watcher")
    => /\ loop = "NotStarted"
       /\ watcher = NoWatcher
       /\ \/ "initial" \in Range(delivered)
          \/ \E i \in DOMAIN chan : chan[i].origin = "initial"

\* the paths of the watcher.Remove calls of the latest iteration, in order
RemovedInOrder(calls) ==
    LET rm == SelectSeq(calls, LAMBDA c : c[1] = "Remove")
    IN  [i \in DOMAIN rm |-> rm[i][2]]

\* C15: a Remove or Rename event that names a key of watchedDirectories removes
\* the watches of the entries of its recorded list from the last entry to the
\* first: a directory below another one of the list is removed before it, and
\* the named directory is removed last.
C15_ReverseRemoval ==
    [][(/\ TakesEvent /\ DirectoryMode
        /\ Head(events).Op \in {"Remove", "Rename"}
        /\ Head(events).Name \in DOMAIN watchedDirectories)
       => LET list == watchedDirectories[Head(events).Name]
              removed == RemovedInOrder(last'.calls)
          IN  /\ removed = Reverse(list)
              /\ removed[Len(removed)] = Head(events).Name
              /\ \A i, j \in DOMAIN removed :
                   (removed[i] # removed[j] /\ IsUnder(removed[i], removed[j])) => i < j]_vars

C15_Witness ==
    /\ HandledEvent /\ DirectoryMode
    /\ last.Op = "Rename"
    /\ RemovedInOrder(last.calls) = <<Z, A, R>>

PendingReloads(c) == {i \in DOMAIN c : i > ChanCap /\ c[i].origin = "reload"}

\* C17: while a send of the event loop is blocked, no step takes an event or a
\* watcher error, changes watchedDirectories, adds a watch, closes the
\* watcher, starts another reload or acts on the stop signal; and at no time
\* is more than one send of the loop pending.
C17_BlockedSendBlocksLoop ==
    [][/\ Cardinality(PendingReloads(chan')) <= 1
       /\ Blocked("reload") =>
            /\ ~TakesEvent
            /\ errs' >= errs
            /\ watchedDirectories' = watchedDirectories
            /\ watcher'.watches \subseteq watcher.watches
            /\ watcher'.state = watcher.state
            /\ loop' = loop
            /\ last' = last
            /\ Cardinality(PendingReloads(chan')) <= Cardinality(PendingReloads(chan))]_vars

C17_Witness ==
    /\ Blocked("reload")
    /\ loop = "Running"
    /\ events # <<>>
    /\ stop

\* C18: with a fairly scheduled routine and a consumer that takes every
\* message, once the stop signal is raised the routine reaches Stopped with the
\* watcher closed; and it never exits with a send of its own still pending: a
\* reload in progress has handed over its snapshot before the routine stops.
C18_StopIsReached ==
    /\ stop ~> (loop = "Stopped" /\ watcher.state = "closed")
    /\ [](loop = "Stopped" => PendingReloads(chan) = {})

C18_Witness ==
    /\ stop
    /\ loop = "Stopped" /\ watcher.state = "closed"
    /\ events # <<>>
    /\ Len(delivered) = 2 /\ delivered[2] = "reload"

\* the TLS objects the decoder made for the fragments of the tree
FragmentTLS ==
    UNION {{<<f, i>> : i \in 1..Len(files[f].TLS.s)} : f \in Fragments}

\* C19: in directory mode the TLS sequence of the merged Configuration holds
\* every TLS object of every fragment of the tree, at any depth, exactly once,
\* with what the fragment holds for it: objects of different fragments that
\* hold the same are all kept.
C19_EveryTLSObjectOnce ==
    (/\ pc.at # "build" /\ DirectoryMode
     /\ configuration.err = NoErr)
    => LET merged == configuration.cfg.TLS.s
       IN  /\ \A i, j \in DOMAIN merged : merged[i].ptr = merged[j].ptr => i = j
           /\ {merged[i].ptr : i \in DOMAIN merged} = FragmentTLS
           /\ \A i \in DOMAIN merged :
                merged[i].val = files[merged[i].ptr[1]].TLS.s[merged[i].ptr[2]]

C19_Witness ==
    /\ pc.at # "build" /\ DirectoryMode
    /\ configuration.err = NoErr
    /\ files[E].TLS = Slice(<<"c">>)
    /\ files[F].TLS = Slice(<<"c", "c">>)
    /\ files[H].TLS = Slice(<<"c">>)
    /\ Len(configuration.cfg.TLS.s) = 4

\* C20: in directory mode, while the event loop runs, the keys of
\* watchedDirectories are the paths the watcher was asked to watch and not
\* asked to stop watching.
C20_KeysAreWatchRequests ==
    (DirectoryMode /\ loop = "Running")
    => DOMAIN watchedDirectories = watcher.requested

====
